---- MODULE Spec2Model ----
(***************************************************************************)
(* The interactive playback session of lilac's command line player         *)
(* (cli/src/interactive.rs): the queue and its cursor, the stopwatch that  *)
(* stands in for the audio position, the rodio sink, the displayed state,  *)
(* and the main function from loading the files to restoring the terminal. *)
(*                                                                         *)
(* Durations are counted in whole seconds.  Instants are not stored: the   *)
(* stopwatch keeps started.elapsed(), the time since its start instant,    *)
(* which the passage of time (Advance) increases.                          *)
(***************************************************************************)
EXTENDS Integers, Sequences, FiniteSets, TLC

\* Bounds of the model: the files given to main(), and the seconds a
\* stopwatch reading may reach before time stops passing.
MaxFiles == 2
MaxElapsed == 2

\* Bound of the model with the background thread: the events poll() sends.
MaxSent == 2

\* Bound of the timing of poll(): the parts the tick rate is divided into.
TickParts == 2

\* Bound of the model of a stopwatch on its own: the seconds its reading, or
\* the time since its start instant, may reach.
MaxClock == 5

\* Program constants.
INITIAL_VOLUME == 100
MAX_VOLUME == 100
MIN_VOLUME == 0
SKIP_BACK_SECS == 2

\* The tick rate of poll() (100 ms), counted in parts.
TICK_RATE == TickParts

\* The total duration of the track the i-th file holds, when it loads: short
\* and long tracks alternate, one ending before the skip-back threshold and
\* one at it.
TrackLength(i) == IF i % 2 = 1 THEN SKIP_BACK_SECS - 1 ELSE SKIP_BACK_SECS

VARIABLES
    pc,         \* where main() stands
    files,      \* the argument of main(): what loading each file gives
    queue,      \* Queue { songs, cursor }
    stopwatch,  \* Stopwatch { time, started, running }
    sink,       \* the rodio Sink the variable `sink` holds
    state,      \* State { controls { playback, volume }, info }
    term,       \* the terminal: raw mode, alternate screen, cursor hidden
    spawned,    \* the background thread running poll() was spawned
    result,     \* what main() returned
    ev,         \* history: the event handled since the last draw, and its outcome
    snap,       \* history: the session before the last event, when that was Space
    chan,       \* the mpsc channel from poll() to main(): the events in flight
    poll,       \* where the background thread stands in poll()
    sent,       \* history: the events poll() has sent, in the order of the sends
    applied,    \* history: the events main() has received, in the order of the receives
    frames,     \* history: how many frames terminal.draw(..) has drawn
    ran,        \* history: the seconds passed with a stopwatch running since its reset
    last_tick,  \* last_tick.elapsed() in poll(), in parts of the tick rate
    quiet       \* the user has stopped pressing keys

\* the background thread and its channel, with their history
threads == <<chan, poll, sent, applied, frames>>

vars == <<pc, files, queue, stopwatch, sink, state, term, spawned, result, ev, snap,
          chan, poll, sent, applied, frames, ran, last_tick, quiet>>

----------------------------------------------------------------------------
\* The input: one load result per file, in the order of the file list.

LoadResults(i) == {[ok |-> FALSE, total |-> 0], [ok |-> TRUE, total |-> TrackLength(i)]}

FileLists ==
    {fs \in UNION {[1..n -> LoadResults(1) \cup LoadResults(2)] : n \in 0..MaxFiles} :
        \A i \in DOMAIN fs : fs[i] \in LoadResults(i)}

----------------------------------------------------------------------------
\* Queue

RECURSIVE LoadedFrom_until_failure(_, _)
\* a collection that ends at the first file that fails to load
LoadedFrom_until_failure(fs, i) ==
    IF i > Len(fs) THEN <<>>
    ELSE IF fs[i].ok
         THEN <<[path |-> i, total |-> fs[i].total]>> \o LoadedFrom_until_failure(fs, i + 1)
         ELSE <<>>

RECURSIVE LoadedFrom(_, _)
\* filter_map over the files from position i on, collected in order: a file
\* that fails to load is left out, a loaded one is kept with its path
LoadedFrom(fs, i) ==
    IF i > Len(fs) THEN <<>>
    ELSE IF fs[i].ok THEN <<[path |-> i, total |-> fs[i].total]>> \o LoadedFrom(fs, i + 1)
    ELSE LoadedFrom(fs, i + 1)

NoQueue == [songs |-> <<>>, cursor |-> 0]

Queue_new(fs) == [songs |-> LoadedFrom(fs, 1), cursor |-> 0]

Queue_is_empty(q) == Len(q.songs) = 0

\* self.songs[self.cursor] is in bounds
Queue_in_bounds(q) == q.cursor + 1 \in DOMAIN q.songs

NoLilac == [path |-> 0, total |-> 0]

\* the song at the cursor (cursor counts from 0, sequences from 1); out of
\* bounds the index panics, which the callers' actions turn into Panic
Queue_current(q) ==
    [idx |-> q.cursor, lilac |-> IF Queue_in_bounds(q) THEN q.songs[q.cursor + 1] ELSE NoLilac]

\* Queue::next without the test for the last index
Queue_next_unchecked(q) == [moved |-> TRUE, q |-> [q EXCEPT !.cursor = @ + 1]]

Queue_next(q) ==
    IF q.cursor = Len(q.songs) - 1
    THEN [moved |-> FALSE, q |-> q]
    ELSE [moved |-> TRUE, q |-> [q EXCEPT !.cursor = @ + 1]]

\* Queue::prev going round to the last index from index 0
Queue_prev_wrapping(q) ==
    IF q.cursor = 0
    THEN [moved |-> TRUE, q |-> [q EXCEPT !.cursor = Len(q.songs) - 1]]
    ELSE [moved |-> TRUE, q |-> [q EXCEPT !.cursor = @ - 1]]

Queue_prev(q) ==
    IF q.cursor = 0
    THEN [moved |-> FALSE, q |-> q]
    ELSE [moved |-> TRUE, q |-> [q EXCEPT !.cursor = @ - 1]]

\* the end of the queue without `while queue.prev() {}`
Rewind_stays(q) == q

RECURSIVE Rewind(_)
\* while queue.prev() {}
Rewind(q) == IF Queue_prev(q).moved THEN Rewind(Queue_prev(q).q) ELSE q

----------------------------------------------------------------------------
\* Stopwatch; since is started.elapsed()

Stopwatch_new == [time |-> 0, since |-> 0, running |-> FALSE]

\* Stopwatch::start without self.started = Instant::now()
Stopwatch_start_keeps_started(sw) ==
    IF sw.running THEN sw ELSE [sw EXCEPT !.running = TRUE]

\* start() without its test of running
Stopwatch_start_restarts(sw) == [sw EXCEPT !.running = TRUE, !.since = 0]

Stopwatch_start(sw) ==
    IF sw.running THEN sw ELSE [sw EXCEPT !.running = TRUE, !.since = 0]

\* stop() that forgets the time since the start instant
Stopwatch_stop_discards(sw) == [sw EXCEPT !.running = FALSE]

Stopwatch_stop(sw) ==
    IF ~sw.running THEN sw ELSE [sw EXCEPT !.running = FALSE, !.time = @ + sw.since]

\* Stopwatch::reset without self.started = Instant::now()
Stopwatch_reset_keeps_started(sw) == [sw EXCEPT !.time = 0]

\* reset() that also stops the stopwatch
Stopwatch_reset_stops(sw) == [sw EXCEPT !.time = 0, !.since = 0, !.running = FALSE]

Stopwatch_reset(sw) == [sw EXCEPT !.time = 0, !.since = 0]

\* time() that adds the time since the start instant when stopped too
Stopwatch_time_always_adds(sw) == sw.time + sw.since

Stopwatch_time(sw) == IF sw.running THEN sw.time + sw.since ELSE sw.time

----------------------------------------------------------------------------
\* The sink: what it holds (queued), whether it is paused, its volume in
\* hundredths (the f32 the code passes is percent / 100.0), and how far into
\* the queued source the device has played (pos).

NoSink == [made |-> FALSE, queued |-> <<>>, paused |-> FALSE, volume |-> 0, pos |-> 0]

Sink_new == [made |-> TRUE, queued |-> <<>>, paused |-> FALSE, volume |-> MAX_VOLUME, pos |-> 0]

Sink_set_volume(s, percent) == [s EXCEPT !.volume = percent]

Sink_append(s, source) == [s EXCEPT !.queued = Append(@, source)]

Sink_play(s) == [s EXCEPT !.paused = FALSE]

Sink_pause(s) == [s EXCEPT !.paused = TRUE]

\* the device plays one more second of the sink
Sink_advance(s) ==
    IF s.made /\ ~s.paused /\ Len(s.queued) > 0 /\ s.pos < s.queued[1].total
    THEN [s EXCEPT !.pos = @ + 1]
    ELSE s

----------------------------------------------------------------------------
\* State

InfoState_read(q) ==
    [metadata |-> Queue_current(q).lilac.path, current |-> Queue_current(q).idx]

NoState ==
    [playing |-> FALSE, played |-> 0, duration |-> 0, volume |-> 0,
     info |-> [metadata |-> 0, current |-> 0]]

\* A session is the part of main()'s locals the event loop works on.
Session(q, sw, sk, st) == [queue |-> q, stopwatch |-> sw, sink |-> sk, state |-> st]

\* reset! without sink.set_volume(..): the new sink keeps the volume it is made with
Reset_default_volume(s) ==
    LET source == Queue_current(s.queue).lilac
        st == [s.state EXCEPT !.played = 0,
                              !.duration = source.total,
                              !.info = InfoState_read(s.queue)]
        sk1 == Sink_append(Sink_new, source)
        sk2 == IF st.playing THEN Sink_play(sk1) ELSE Sink_pause(sk1)
    IN  Session(s.queue, Stopwatch_reset(s.stopwatch), sk2, st)

\* the reset! macro
Reset(s) ==
    LET source == Queue_current(s.queue).lilac
        st == [s.state EXCEPT !.played = 0,
                              !.duration = source.total,
                              !.info = InfoState_read(s.queue)]
        sk1 == Sink_append(Sink_set_volume(Sink_new, st.volume), source)
        sk2 == IF st.playing THEN Sink_play(sk1) ELSE Sink_pause(sk1)
    IN  Session(s.queue, Stopwatch_reset(s.stopwatch), sk2, st)

----------------------------------------------------------------------------
\* The arms of the event loop, as functions of the session.

\* the Space arm without stopwatch.start() and stopwatch.stop()
KeySpace_keeps_clock(s) ==
    LET st == [s.state EXCEPT !.playing = ~@]
    IN  IF st.playing
        THEN Session(s.queue, s.stopwatch, Sink_play(s.sink), st)
        ELSE Session(s.queue, s.stopwatch, Sink_pause(s.sink), st)

\* KeyCode::Char(' ')
KeySpace(s) ==
    LET st == [s.state EXCEPT !.playing = ~@]
    IN  IF st.playing
        THEN Session(s.queue, Stopwatch_start(s.stopwatch), Sink_play(s.sink), st)
        ELSE Session(s.queue, Stopwatch_stop(s.stopwatch), Sink_pause(s.sink), st)

\* the Right arm without reset!
KeyRight_without_reset(s) == [s EXCEPT !.queue = Queue_next(s.queue).q]

\* the Right arm without its `continue`
KeyRight_always_resets(s) == Reset([s EXCEPT !.queue = Queue_next(s.queue).q])

\* KeyCode::Right
KeyRight(s) ==
    LET n == Queue_next(s.queue)
    IN  IF ~n.moved THEN s ELSE Reset([s EXCEPT !.queue = n.q])

\* the Left arm with reset! only when queue.prev() moved or the threshold passed
KeyLeft_needs_move(s) ==
    IF Stopwatch_time(s.stopwatch) < SKIP_BACK_SECS
    THEN IF Queue_prev(s.queue).moved
         THEN Reset([s EXCEPT !.queue = Queue_prev(s.queue).q])
         ELSE s
    ELSE Reset(s)

\* the Left arm with <= for <
KeyLeft_inclusive(s) ==
    IF Stopwatch_time(s.stopwatch) <= SKIP_BACK_SECS
    THEN Reset([s EXCEPT !.queue = Queue_prev(s.queue).q])
    ELSE Reset(s)

\* KeyCode::Left
KeyLeft(s) ==
    IF Stopwatch_time(s.stopwatch) < SKIP_BACK_SECS
    THEN Reset([s EXCEPT !.queue = Queue_prev(s.queue).q])
    ELSE Reset(s)

\* KeyCode::Up
KeyUp(s) ==
    IF s.state.volume < MAX_VOLUME
    THEN LET v == s.state.volume + 1
         IN  [s EXCEPT !.state.volume = v, !.sink = Sink_set_volume(@, v)]
    ELSE s

\* the Down arm without its test
KeyDown_unguarded(s) ==
    LET v == s.state.volume - 1
    IN  [s EXCEPT !.state.volume = v, !.sink = Sink_set_volume(@, v)]

\* KeyCode::Down
KeyDown(s) ==
    IF s.state.volume > MIN_VOLUME
    THEN LET v == s.state.volume - 1
         IN  [s EXCEPT !.state.volume = v, !.sink = Sink_set_volume(@, v)]
    ELSE s

\* the Tick arm without playing = false at the end of the queue
Tick_keeps_playing(s) ==
    LET t == [s EXCEPT !.state.played = Stopwatch_time(s.stopwatch)]
        n == Queue_next(t.queue)
    IN  IF t.state.played >= t.state.duration /\ t.state.playing
        THEN IF n.moved
             THEN Reset([t EXCEPT !.queue = n.q])
             ELSE Reset([t EXCEPT !.queue = Rewind(t.queue),
                                  !.sink = Sink_pause(@),
                                  !.stopwatch = Stopwatch_stop(@)])
        ELSE t

\* the Tick arm without `&& state.controls.playback.playing`
Tick_ignores_playing(s) ==
    LET t == [s EXCEPT !.state.played = Stopwatch_time(s.stopwatch)]
        n == Queue_next(t.queue)
    IN  IF t.state.played >= t.state.duration
        THEN IF n.moved
             THEN Reset([t EXCEPT !.queue = n.q])
             ELSE Reset([t EXCEPT !.queue = Rewind(t.queue),
                                  !.state.playing = FALSE,
                                  !.sink = Sink_pause(@),
                                  !.stopwatch = Stopwatch_stop(@)])
        ELSE t

\* Event::Tick
Tick(s) ==
    LET t == [s EXCEPT !.state.played = Stopwatch_time(s.stopwatch)]
        n == Queue_next(t.queue)
    IN  IF t.state.played >= t.state.duration /\ t.state.playing
        THEN IF n.moved
             THEN Reset([t EXCEPT !.queue = n.q])
             ELSE Reset([t EXCEPT !.queue = Rewind(t.queue),
                                  !.state.playing = FALSE,
                                  !.sink = Sink_pause(@),
                                  !.stopwatch = Stopwatch_stop(@)])
        ELSE t

\* which branch of its arm an event takes in session s
Outcome(e, s) ==
    CASE e = "Right" -> IF Queue_next(s.queue).moved THEN "skipped" ELSE "ignored"
      [] e = "Left" -> IF Stopwatch_time(s.stopwatch) >= SKIP_BACK_SECS THEN "restarted"
                       ELSE IF Queue_prev(s.queue).moved THEN "previous" ELSE "restarted_first"
      [] e = "Up" -> IF s.state.volume < MAX_VOLUME THEN "changed" ELSE "clamped"
      [] e = "Down" -> IF s.state.volume > MIN_VOLUME THEN "changed" ELSE "clamped"
      [] e = "Space" -> IF s.state.playing THEN "paused" ELSE "resumed"
      [] e = "Tick" -> IF Stopwatch_time(s.stopwatch) >= s.state.duration /\ s.state.playing
                       THEN IF Queue_next(s.queue).moved THEN "advanced" ELSE "rewound"
                       ELSE "refreshed"
      [] OTHER -> "none"

\* the session after the arm of event e has run in session s
Arm(e, s) ==
    CASE e = "Space" -> KeySpace(s)
      [] e = "Right" -> KeyRight(s)
      [] e = "Left" -> KeyLeft(s)
      [] e = "Up" -> KeyUp(s)
      [] e = "Down" -> KeyDown(s)
      [] e = "Tick" -> Tick(s)
      [] OTHER -> s

NoEvent == [kind |-> "none", outcome |-> "none"]

NoSnap ==
    [valid |-> FALSE, playing |-> FALSE, running |-> FALSE, paused |-> FALSE,
     cursor |-> 0, volume |-> 0, elapsed |-> 0, ran |-> 0, second |-> FALSE, gap |-> 0]

\* What a Space press found: the transport, and the stopwatch reading; ran
\* counts the seconds that pass from then on while the stopwatch runs.  When
\* the event before was a Space too (before is its snapshot) the press is the
\* second of a pair, and gap is what ran counted between the two.
Snapshot(s, before) ==
    [valid |-> TRUE, playing |-> s.state.playing, running |-> s.stopwatch.running,
     paused |-> s.sink.paused, cursor |-> s.queue.cursor, volume |-> s.state.volume,
     elapsed |-> Stopwatch_time(s.stopwatch), ran |-> 0,
     second |-> before.valid, gap |-> before.ran]

----------------------------------------------------------------------------
\* main(), up to the event loop

Cur == Session(queue, stopwatch, sink, state)

Init ==
    /\ pc = "load"
    /\ files \in FileLists
    /\ queue = NoQueue
    /\ stopwatch = Stopwatch_new
    /\ sink = NoSink
    /\ state = NoState
    /\ term = [raw |-> FALSE, alt |-> FALSE, hidden |-> FALSE]
    /\ spawned = FALSE
    /\ result = "running"
    /\ ev = NoEvent
    /\ snap = NoSnap
    /\ chan = <<>>
    /\ poll = "unspawned"
    /\ sent = <<>>
    /\ applied = <<>>
    /\ frames = 0
    /\ ran = 0
    /\ last_tick = 0
    /\ quiet = FALSE

\* return from main() with r
Return(r) == pc' = "done" /\ result' = r

\* a panic unwinds main(): nothing after it runs
Panic == pc' = "done" /\ result' = "panic"

\* Load without the is_empty() return
Load_unchecked ==
    /\ pc = "load"
    /\ queue' = Queue_new(files)
    /\ pc' = "device"
    /\ UNCHANGED <<files, stopwatch, sink, state, term, spawned, result, ev, snap, threads, ran, last_tick, quiet>>

\* Queue::new(&files)? and the is_empty() return
Load ==
    /\ pc = "load"
    /\ queue' = Queue_new(files)
    /\ IF Queue_is_empty(queue')
       THEN Return("ok")
       ELSE pc' = "device" /\ result' = result
    /\ UNCHANGED <<files, stopwatch, sink, state, term, spawned, ev, snap, threads, ran, last_tick, quiet>>

\* a fallible step of main(): it goes on to `next`, or `?` returns the error
Step(here, next, ok) ==
    /\ pc = here
    /\ IF ok THEN pc' = next /\ result' = result ELSE Return("err")

\* rodio::default_output_device().context(..)?
OpenDevice ==
    /\ \E ok \in BOOLEAN : Step("device", "raw", ok)
    /\ UNCHANGED <<files, queue, stopwatch, sink, state, term, spawned, ev, snap, threads, ran, last_tick, quiet>>

\* crossterm::terminal::enable_raw_mode()?
EnableRawMode ==
    /\ \E ok \in BOOLEAN :
         /\ Step("raw", "terminal", ok)
         /\ term' = IF ok THEN [term EXCEPT !.raw = TRUE] ELSE term
    /\ UNCHANGED <<files, queue, stopwatch, sink, state, spawned, ev, snap, threads, ran, last_tick, quiet>>

\* Terminal::new(CrosstermBackend::new(io::stdout()))?
NewTerminal ==
    /\ \E ok \in BOOLEAN : Step("terminal", "alt", ok)
    /\ UNCHANGED <<files, queue, stopwatch, sink, state, term, spawned, ev, snap, threads, ran, last_tick, quiet>>

\* terminal.backend_mut().execute(EnterAlternateScreen)?
EnterAlternateScreen ==
    /\ \E ok \in BOOLEAN :
         /\ Step("alt", "hide", ok)
         /\ term' = IF ok THEN [term EXCEPT !.alt = TRUE] ELSE term
    /\ UNCHANGED <<files, queue, stopwatch, sink, state, spawned, ev, snap, threads, ran, last_tick, quiet>>

\* terminal.hide_cursor()?
HideCursor ==
    /\ \E ok \in BOOLEAN :
         /\ Step("hide", "clear", ok)
         /\ term' = IF ok THEN [term EXCEPT !.hidden = TRUE] ELSE term
    /\ UNCHANGED <<files, queue, stopwatch, sink, state, spawned, ev, snap, threads, ran, last_tick, quiet>>

\* terminal.clear()?
ClearTerminal ==
    /\ \E ok \in BOOLEAN : Step("clear", "start", ok)
    /\ UNCHANGED <<files, queue, stopwatch, sink, state, term, spawned, ev, snap, threads, ran, last_tick, quiet>>

\* thread::spawn(poll), Stopwatch::new(), the first sink and the first State
StartSession ==
    /\ pc = "start"
    /\ spawned' = TRUE
    /\ poll' = "poll"
    /\ stopwatch' = Stopwatch_new
    /\ LET source == Queue_current(queue).lilac
       IN  /\ state' = [playing |-> FALSE, played |-> 0, duration |-> source.total,
                        volume |-> INITIAL_VOLUME, info |-> InfoState_read(queue)]
           /\ sink' = Sink_pause(Sink_append(Sink_set_volume(Sink_new, state'.volume), source))
    /\ IF Queue_in_bounds(queue) THEN pc' = "draw" /\ result' = result ELSE Panic
    /\ UNCHANGED <<files, queue, term, ev, snap, chan, sent, applied, frames, ran, last_tick, quiet>>

----------------------------------------------------------------------------
\* The event loop

\* main() returns from the loop or after it: its locals are dropped
DropLocals ==
    /\ queue' = NoQueue
    /\ stopwatch' = Stopwatch_new
    /\ sink' = NoSink
    /\ state' = NoState
    /\ ev' = NoEvent
    /\ snap' = NoSnap

\* terminal.draw(..)?
DrawFrame ==
    /\ pc = "draw"
    /\ \E ok \in BOOLEAN :
         IF ok
         THEN /\ pc' = "recv"
              /\ ev' = NoEvent
              /\ UNCHANGED <<queue, stopwatch, sink, state, result, snap>>
         ELSE Return("err") /\ DropLocals
    /\ UNCHANGED <<files, term, spawned>>

\* terminal.draw(..)?, whatever the thread is doing
Draw == DrawFrame /\ UNCHANGED <<threads, ran, last_tick, quiet>>

\* Handle breaking out of the loop once the queue is exhausted
Handle_breaks_when_rewound(e, s) ==
    /\ pc = "recv"
    /\ ev' = [kind |-> e, outcome |-> Outcome(e, Cur)]
    /\ snap' = IF e = "Space" THEN Snapshot(Cur, snap) ELSE NoSnap
    /\ queue' = s.queue
    /\ stopwatch' = s.stopwatch
    /\ sink' = s.sink
    /\ state' = s.state
    /\ IF Queue_in_bounds(s.queue)
       THEN pc' = (IF ev'.outcome = "rewound" THEN "restore" ELSE "draw") /\ result' = result
       ELSE Panic
    /\ UNCHANGED <<files, term, spawned>>

\* Handle with `continue` going straight back to the receive
Handle_continue_skips_draw(e, s) ==
    /\ pc = "recv"
    /\ ev' = [kind |-> e, outcome |-> Outcome(e, Cur)]
    /\ snap' = IF e = "Space" THEN Snapshot(Cur, snap) ELSE NoSnap
    /\ queue' = s.queue
    /\ stopwatch' = s.stopwatch
    /\ sink' = s.sink
    /\ state' = s.state
    /\ IF Queue_in_bounds(s.queue)
       THEN pc' = (IF e = "Other" THEN "recv" ELSE "draw") /\ result' = result
       ELSE Panic
    /\ UNCHANGED <<files, term, spawned>>

\* rx.recv() gave event e, whose arm turns the session into s
Handle(e, s) ==
    /\ pc = "recv"
    /\ ev' = [kind |-> e, outcome |-> Outcome(e, Cur)]
    /\ snap' = IF e = "Space" THEN Snapshot(Cur, snap) ELSE NoSnap
    /\ queue' = s.queue
    /\ stopwatch' = s.stopwatch
    /\ sink' = s.sink
    /\ state' = s.state
    /\ IF Queue_in_bounds(s.queue) THEN pc' = "draw" /\ result' = result ELSE Panic
    /\ UNCHANGED <<files, term, spawned>>

RecvSpace == Handle("Space", KeySpace(Cur)) /\ UNCHANGED <<threads, ran, last_tick, quiet>>

RecvRight == Handle("Right", KeyRight(Cur)) /\ UNCHANGED <<threads, ran, last_tick, quiet>>

RecvLeft == Handle("Left", KeyLeft(Cur)) /\ UNCHANGED <<threads, ran, last_tick, quiet>>

RecvUp == Handle("Up", KeyUp(Cur)) /\ UNCHANGED <<threads, ran, last_tick, quiet>>

RecvDown == Handle("Down", KeyDown(Cur)) /\ UNCHANGED <<threads, ran, last_tick, quiet>>

\* a key without an arm handled by the Space arm
RecvOther_toggles == Handle("Other", KeySpace(Cur)) /\ UNCHANGED <<threads, ran, last_tick, quiet>>

\* _ => continue
RecvOther == Handle("Other", Cur) /\ UNCHANGED <<threads, ran, last_tick, quiet>>

RecvTick == Handle("Tick", Tick(Cur)) /\ UNCHANGED <<threads, ran, last_tick, quiet>>

\* KeyCode::Esc => break
Break ==
    /\ pc = "recv"
    /\ ev' = [kind |-> "Esc", outcome |-> "none"]
    /\ snap' = NoSnap
    /\ pc' = "restore"
    /\ UNCHANGED <<files, queue, stopwatch, sink, state, term, spawned, result>>

RecvEsc == Break /\ UNCHANGED <<threads, ran, last_tick, quiet>>

\* One second passes while main() waits in rx.recv(): every started.elapsed()
\* grows and the device plays on.
Advance ==
    /\ pc = "recv"
    /\ IF stopwatch.running
       THEN Stopwatch_time(stopwatch) < MaxElapsed
       ELSE stopwatch.since < MaxElapsed
    /\ stopwatch' = [stopwatch EXCEPT !.since = @ + 1]
    /\ sink' = Sink_advance(sink)
    /\ snap' = IF snap.valid /\ stopwatch.running THEN [snap EXCEPT !.ran = @ + 1] ELSE snap
    /\ UNCHANGED <<pc, files, queue, state, term, spawned, result, ev, threads, ran, last_tick, quiet>>

----------------------------------------------------------------------------
\* After the loop

\* terminal.show_cursor()?, execute(LeaveAlternateScreen)?, disable_raw_mode()?
\* and crate::OK: the calls run in this order up to the first that fails
RestoreTerminal ==
    /\ pc = "restore"
    /\ \E failing \in {"none", "show_cursor", "LeaveAlternateScreen", "disable_raw_mode"} :
         /\ term' = [hidden |-> term.hidden /\ failing = "show_cursor",
                     alt |-> term.alt /\ failing \in {"show_cursor", "LeaveAlternateScreen"},
                     raw |-> term.raw /\ failing # "none"]
         /\ Return(IF failing = "none" THEN "ok" ELSE "err")
    /\ DropLocals
    /\ UNCHANGED <<files, spawned, threads, ran, last_tick, quiet>>

Next ==
    \/ Load
    \/ OpenDevice
    \/ EnableRawMode
    \/ NewTerminal
    \/ EnterAlternateScreen
    \/ HideCursor
    \/ ClearTerminal
    \/ StartSession
    \/ Draw
    \/ RecvSpace
    \/ RecvRight
    \/ RecvLeft
    \/ RecvUp
    \/ RecvDown
    \/ RecvEsc
    \/ RecvOther
    \/ RecvTick
    \/ Advance
    \/ RestoreTerminal

Spec == Init /\ [][Next]_vars

----------------------------------------------------------------------------
\* The background thread, poll(), and the channel that carries its events to
\* main().  Here the events main() handles are the ones poll() sent.

\* the keys event::read() may give
KeyCodes == {"Space", "Right", "Left", "Up", "Down", "Esc", "Other"}

\* tx.send(e)
Chan_send(c, e) == Append(c, e)

\* a receive that takes the newest event and discards the ones before it
Chan_recv_latest(c) == [msg |-> c[Len(c)], rest |-> <<>>]

\* rx.recv() on a channel that holds an event: the oldest one
Chan_recv(c) == [msg |-> Head(c), rest |-> Tail(c)]

\* poll() sends an event of kind k
Send(k) ==
    LET e == [kind |-> k, seq |-> Len(sent) + 1]
    IN  /\ chan' = Chan_send(chan, e)
        /\ sent' = Append(sent, e)

\* TICK_RATE - last_tick.elapsed(), which panics when the duration subtracted
\* is the longer one
Underflows == last_tick > TICK_RATE

\* the timeout given to event::poll
Timeout == TICK_RATE - last_tick

\* PollKey without the break after Esc
PollKey_never_returns ==
    /\ poll = "poll"
    /\ pc # "done"
    /\ ~Underflows
    /\ Len(sent) < MaxSent
    /\ \E k \in KeyCodes, wait \in 0..Timeout :
         /\ Send(k)
         /\ poll' = "check"
         /\ last_tick' = last_tick + wait
    /\ UNCHANGED <<pc, files, queue, stopwatch, sink, state, term, spawned, result, ev, snap,
                   applied, frames, ran, quiet>>

\* event::poll(TICK_RATE - last_tick.elapsed())? gives true after some wait
\* within the timeout and event::read()? a key: Input(k) is sent, and poll()
\* returns after Esc
PollKey ==
    /\ poll = "poll"
    /\ pc # "done"
    /\ ~Underflows
    /\ Len(sent) < MaxSent
    /\ \E k \in KeyCodes, wait \in 0..Timeout :
         /\ Send(k)
         /\ poll' = IF k = "Esc" THEN "returned" ELSE "check"
         /\ last_tick' = IF k = "Esc" THEN 0 ELSE last_tick + wait
    /\ UNCHANGED <<pc, files, queue, stopwatch, sink, state, term, spawned, result, ev, snap,
                   applied, frames, ran, quiet>>

\* event::poll(..)? gives false when the whole timeout has passed, or true
\* earlier for an event that event::read()? shows to be no key
PollIdle ==
    /\ poll = "poll"
    /\ pc # "done"
    /\ ~Underflows
    /\ \E wait \in 0..Timeout : last_tick' = last_tick + wait
    /\ poll' = "check"
    /\ UNCHANGED <<pc, files, queue, stopwatch, sink, state, term, spawned, result, ev, snap,
                   chan, sent, applied, frames, ran, quiet>>

\* the subtraction of line 288 underflows: the thread panics, and its Sender
\* is dropped as it unwinds
PollPanics ==
    /\ poll = "poll"
    /\ pc # "done"
    /\ Underflows
    /\ poll' = "panicked"
    /\ last_tick' = 0
    /\ UNCHANGED <<pc, files, queue, stopwatch, sink, state, term, spawned, result, ev, snap,
                   chan, sent, applied, frames, ran, quiet>>

\* if last_tick.elapsed() >= TICK_RATE { tx.send(Event::Tick)?; last_tick = Instant::now(); }
PollTick ==
    /\ poll = "check"
    /\ pc # "done"
    /\ IF last_tick >= TICK_RATE
       THEN Len(sent) < MaxSent /\ Send("Tick") /\ last_tick' = 0
       ELSE UNCHANGED <<chan, sent, last_tick>>
    /\ poll' = "poll"
    /\ UNCHANGED <<pc, files, queue, stopwatch, sink, state, term, spawned, result, ev, snap,
                   applied, frames, ran, quiet>>

\* A part of the tick rate passes while poll() is between two of its
\* statements: last_tick.elapsed() grows.
PollElapse ==
    /\ poll \in {"poll", "check"}
    /\ pc # "done"
    /\ last_tick <= TICK_RATE
    /\ last_tick' = last_tick + 1
    /\ UNCHANGED <<pc, files, queue, stopwatch, sink, state, term, spawned, result, ev, snap,
                   threads, ran, quiet>>

\* event::poll(..)? or event::read()? fails: the thread prints the error and
\* ends the process with process::exit(1)
PollFails ==
    /\ poll = "poll"
    /\ pc # "done"
    /\ ~Underflows
    /\ poll' = "failed"
    /\ last_tick' = 0
    /\ pc' = "done"
    /\ result' = "exit"
    /\ DropLocals
    /\ UNCHANGED <<files, term, spawned, chan, sent, applied, frames, ran, quiet>>

\* rx.recv()? on an empty channel whose Sender is gone: main() returns the error
MainDisconnected ==
    /\ pc = "recv"
    /\ chan = <<>>
    /\ poll \in {"returned", "panicked"}
    /\ Return("err")
    /\ DropLocals
    /\ UNCHANGED <<files, term, spawned, threads, ran, last_tick, quiet>>

\* terminal.draw(..)?, counted
MainDraw ==
    /\ DrawFrame
    /\ frames' = IF pc' = "recv" THEN frames + 1 ELSE frames
    /\ UNCHANGED <<chan, poll, sent, applied, ran, last_tick, quiet>>

\* match rx.recv()? { .. }: the event received is handled by its arm
MainRecv ==
    /\ chan # <<>>
    /\ LET r == Chan_recv(chan)
       IN  /\ chan' = r.rest
           /\ applied' = Append(applied, r.msg)
           /\ IF r.msg.kind = "Esc" THEN Break ELSE Handle(r.msg.kind, Arm(r.msg.kind, Cur))
    /\ UNCHANGED <<poll, sent, frames, ran, last_tick, quiet>>

NextThreads ==
    \/ Load
    \/ OpenDevice
    \/ EnableRawMode
    \/ NewTerminal
    \/ EnterAlternateScreen
    \/ HideCursor
    \/ ClearTerminal
    \/ StartSession
    \/ MainDraw
    \/ MainRecv
    \/ Advance
    \/ PollKey
    \/ PollIdle
    \/ PollTick
    \/ PollElapse
    \/ PollPanics
    \/ PollFails
    \/ MainDisconnected
    \/ RestoreTerminal

SpecThreads == Init /\ [][NextThreads]_vars

----------------------------------------------------------------------------
\* A Stopwatch on its own: any sequence of start(), stop(), reset() and
\* seconds passing.  ran is the wall-clock time it has been running since its
\* creation or last reset().

InitStopwatch ==
    /\ pc = "clock"
    /\ files = <<>>
    /\ queue = NoQueue
    /\ stopwatch = Stopwatch_new
    /\ sink = NoSink
    /\ state = NoState
    /\ term = [raw |-> FALSE, alt |-> FALSE, hidden |-> FALSE]
    /\ spawned = FALSE
    /\ result = "running"
    /\ ev = NoEvent
    /\ snap = NoSnap
    /\ chan = <<>>
    /\ poll = "unspawned"
    /\ sent = <<>>
    /\ applied = <<>>
    /\ frames = 0
    /\ ran = 0
    /\ last_tick = 0
    /\ quiet = FALSE

\* what a stopwatch on its own leaves alone
besides == <<pc, files, queue, sink, state, term, spawned, result, snap, threads, last_tick, quiet>>

\* stopwatch.start()
ClockStart ==
    /\ pc = "clock"
    /\ ev' = [kind |-> "start", outcome |-> IF stopwatch.running THEN "kept" ELSE "started"]
    /\ stopwatch' = Stopwatch_start(stopwatch)
    /\ UNCHANGED <<ran, besides>>

\* stopwatch.stop()
ClockStop ==
    /\ pc = "clock"
    /\ ev' = [kind |-> "stop", outcome |-> IF stopwatch.running THEN "stopped" ELSE "kept"]
    /\ stopwatch' = Stopwatch_stop(stopwatch)
    /\ UNCHANGED <<ran, besides>>

\* stopwatch.reset()
ClockReset ==
    /\ pc = "clock"
    /\ ev' = [kind |-> "reset", outcome |-> IF stopwatch.running THEN "running" ELSE "stopped"]
    /\ stopwatch' = Stopwatch_reset(stopwatch)
    /\ ran' = 0
    /\ UNCHANGED besides

\* one second passes
ClockWait ==
    /\ pc = "clock"
    /\ IF stopwatch.running
       THEN Stopwatch_time(stopwatch) < MaxClock
       ELSE stopwatch.since < MaxClock
    /\ ev' = [kind |-> "wait", outcome |-> "none"]
    /\ stopwatch' = [stopwatch EXCEPT !.since = @ + 1]
    /\ ran' = IF stopwatch.running THEN ran + 1 ELSE ran
    /\ UNCHANGED besides

NextStopwatch ==
    \/ ClockStart
    \/ ClockStop
    \/ ClockReset
    \/ ClockWait

SpecStopwatch == InitStopwatch /\ [][NextStopwatch]_vars

----------------------------------------------------------------------------
\* main() with a user who presses keys for a while and then stops (quiet),
\* while Ticks keep arriving and time keeps passing.  The keys pressed are
\* the transport keys; the volume keys are left out here.

\* the user stops pressing keys
GoQuiet ==
    /\ pc \in {"draw", "recv"}
    /\ ~quiet
    /\ quiet' = TRUE
    /\ UNCHANGED <<pc, files, queue, stopwatch, sink, state, term, spawned, result, ev, snap,
                   threads, ran, last_tick>>

PressSpace == ~quiet /\ RecvSpace

PressRight == ~quiet /\ RecvRight

PressLeft == ~quiet /\ RecvLeft

PressOther == ~quiet /\ RecvOther

PressEsc == ~quiet /\ RecvEsc

NextAutoplay ==
    \/ Load
    \/ OpenDevice
    \/ EnableRawMode
    \/ NewTerminal
    \/ EnterAlternateScreen
    \/ HideCursor
    \/ ClearTerminal
    \/ StartSession
    \/ Draw
    \/ PressSpace
    \/ PressRight
    \/ PressLeft
    \/ PressOther
    \/ PressEsc
    \/ GoQuiet
    \/ RecvTick
    \/ Advance
    \/ RestoreTerminal

\* main() goes on to its next draw; poll() sends a Tick every TICK_RATE and
\* main() receives it; and time passes: between two Ticks lies a tick period,
\* so time cannot stand still while Ticks keep being handled.
FairAutoplay ==
    /\ WF_vars(Draw)
    /\ WF_vars(RecvTick)
    /\ SF_vars(Advance)

SpecAutoplay == Init /\ [][NextAutoplay]_vars /\ FairAutoplay

----------------------------------------------------------------------------
\* Properties

LastIndex == Len(queue.songs) - 1

\* C1: whenever the queue is not empty, its cursor is an index of it:
\* 0 <= cursor <= len - 1, whatever events and passage of time came before.
C1_CursorInRange ==
    ~Queue_is_empty(queue) => (0 <= queue.cursor /\ queue.cursor <= LastIndex)

\* a Right press was ignored at the last index of a queue of several tracks
C1_Witness ==
    /\ ev = [kind |-> "Right", outcome |-> "ignored"]
    /\ Len(queue.songs) >= 2
    /\ queue.cursor = LastIndex

\* C2: next() and prev() never wrap: at the last index next() returns false
\* and leaves the queue as it is, at index 0 so does prev(); anywhere else
\* they return true and move the cursor by exactly one.
C2_NavigationNeverWraps ==
    ~Queue_is_empty(queue) =>
        LET n == Queue_next(queue)
            p == Queue_prev(queue)
        IN  /\ n.q.songs = queue.songs /\ p.q.songs = queue.songs
            /\ IF queue.cursor = LastIndex
               THEN ~n.moved /\ n.q.cursor = queue.cursor
               ELSE n.moved /\ n.q.cursor = queue.cursor + 1
            /\ IF queue.cursor = 0
               THEN ~p.moved /\ p.q.cursor = queue.cursor
               ELSE p.moved /\ p.q.cursor = queue.cursor - 1

\* a Left press found prev() returning false at index 0 of a queue of several tracks
C2_Witness ==
    /\ ev = [kind |-> "Left", outcome |-> "restarted_first"]
    /\ Len(queue.songs) >= 2
    /\ queue.cursor = 0

\* the stopwatch reading has reached the total of the current track while playing
EndOfTrack == state.playing /\ Stopwatch_time(stopwatch) >= state.duration

\* C3: a Tick handled at the end of a track that is not the last one moves
\* the cursor on by one, shows 0 elapsed, leaves the stopwatch at zero and
\* running, and leaves playing true.
C3_AutoAdvance ==
    [][(RecvTick /\ EndOfTrack /\ queue.cursor # LastIndex) =>
          /\ queue'.cursor = queue.cursor + 1
          /\ state'.played = 0
          /\ stopwatch'.time = 0
          /\ Stopwatch_time(stopwatch') = 0
          /\ stopwatch'.running
          /\ state'.playing]_vars

\* a Tick has just advanced the queue
C3_Witness ==
    /\ ev = [kind |-> "Tick", outcome |-> "advanced"]
    /\ queue.cursor >= 1
    /\ state.playing

\* C4: a Tick handled at the end of the last track (also of a queue of one)
\* leaves the cursor at 0, playing false, the stopwatch stopped at 0, 0
\* elapsed shown, and a paused sink holding track 0.
C4_EndOfQueue ==
    [][(RecvTick /\ EndOfTrack /\ queue.cursor = LastIndex) =>
          /\ queue'.cursor = 0
          /\ ~state'.playing
          /\ ~stopwatch'.running
          /\ Stopwatch_time(stopwatch') = 0
          /\ state'.played = 0
          /\ sink'.made
          /\ sink'.queued = <<queue.songs[1]>>
          /\ sink'.pos = 0
          /\ sink'.paused]_vars

\* a Tick has just rewound a queue of several tracks
C4_Witness ==
    /\ ev = [kind |-> "Tick", outcome |-> "rewound"]
    /\ Len(queue.songs) >= 2
    /\ queue.cursor = 0

\* C5: Left at index i >= 1 moves the cursor to i - 1 when the stopwatch
\* reads less than 2 seconds and leaves it at i otherwise; either way the
\* elapsed time is reset to 0 and playing is as it was.
C5_SkipBackThreshold ==
    [][(RecvLeft /\ queue.cursor >= 1) =>
          /\ queue'.cursor = IF Stopwatch_time(stopwatch) < 2
                             THEN queue.cursor - 1
                             ELSE queue.cursor
          /\ state'.played = 0
          /\ Stopwatch_time(stopwatch') = 0
          /\ state'.playing = state.playing]_vars

\* a Left press at index >= 1 restarted the track, 2 seconds or more into it
C5_Witness ==
    /\ ev = [kind |-> "Left", outcome |-> "restarted"]
    /\ queue.cursor >= 1

\* C6: Right at the last index changes nothing of the session; anywhere else
\* it moves the cursor on by one, resets the stopwatch and the shown elapsed
\* time to 0, and puts a new sink in place that holds the new track from its
\* start, with playing and the volume as before and applied to the new sink.
C6_SkipForward ==
    [][RecvRight =>
          IF queue.cursor = LastIndex
          THEN UNCHANGED <<queue, state, stopwatch, sink>>
          ELSE /\ queue'.cursor = queue.cursor + 1
               /\ queue'.songs = queue.songs
               /\ Stopwatch_time(stopwatch') = 0
               /\ stopwatch'.running = stopwatch.running
               /\ state'.played = 0
               /\ state'.playing = state.playing
               /\ state'.volume = state.volume
               /\ sink' = [made |-> TRUE,
                           queued |-> <<queue.songs[queue.cursor + 2]>>,
                           paused |-> ~state.playing,
                           volume |-> state.volume,
                           pos |-> 0]]_vars

\* a Right press skipped forward while playing at a lowered volume
C6_Witness ==
    /\ ev = [kind |-> "Right", outcome |-> "skipped"]
    /\ state.playing
    /\ state.volume < INITIAL_VOLUME

\* C7: the volume is a percentage between 0 and 100 in every state.
C7_VolumeInRange == 0 <= state.volume /\ state.volume <= 100

\* a Down press found the volume at 0 and left it there
C7_Witness ==
    /\ ev = [kind |-> "Down", outcome |-> "clamped"]
    /\ state.volume = 0

\* C8: the second of two Space presses in a row brings playing, the
\* stopwatch's running flag and the sink's paused flag back to what the first
\* one found, with cursor and volume as they were; the stopwatch then reads
\* what it read before the first press plus the time that passed while it ran
\* in between, which is none when the session was playing before the first.
C8_ToggleRoundTrip ==
    [][(RecvSpace /\ snap.valid) =>
          /\ state'.playing = snap.playing
          /\ stopwatch'.running = snap.running
          /\ sink'.paused = snap.paused
          /\ queue'.cursor = snap.cursor
          /\ state'.volume = snap.volume
          /\ Stopwatch_time(stopwatch') = snap.elapsed + snap.ran
          /\ snap.playing => Stopwatch_time(stopwatch') = snap.elapsed]_vars

\* the second Space of a pair paused again a session that ran between the two
C8_Witness ==
    /\ ev = [kind |-> "Space", outcome |-> "paused"]
    /\ snap.second
    /\ snap.gap > 0

\* every file of the list fails to load (also when the list is empty)
NothingLoads == \A i \in DOMAIN files : ~files[i].ok

\* C9: when the file list is empty or no file loads, main() returns success
\* from its first step: raw mode is never enabled, the alternate screen never
\* entered, no sink created and no thread spawned.
C9_EmptyQueueNoSetup ==
    NothingLoads =>
        /\ pc \in {"load", "done"}
        /\ pc = "done" => result = "ok"
        /\ ~term.raw /\ ~term.alt /\ ~term.hidden
        /\ ~sink.made
        /\ ~spawned

\* main() has returned success for a list of files none of which loaded
C9_Witness ==
    /\ Len(files) >= 1
    /\ NothingLoads
    /\ pc = "done"
    /\ result = "ok"

\* C10: once the session has started, main() returns only with raw mode
\* disabled and the alternate screen left, on the error paths too.
C10_TerminalRestoredOnReturn ==
    (pc = "done" /\ spawned) => (~term.raw /\ ~term.alt)

\* C11: the loop is left for the code after it only by the step that handles
\* an Escape key; every other event handled in the loop, a Tick that finds the
\* last track finished included, leads back to the draw at the top of the loop
\* with main() still running.
C11_OnlyEscapeEndsLoop ==
    [][/\ (pc # "restore" /\ pc' = "restore") => (pc = "recv" /\ ev'.kind = "Esc")
       /\ (pc = "recv" /\ ev'.kind \notin {"none", "Esc"}) =>
              (pc' = "draw" /\ result' = "running")]_vars

\* Escape was handled in a session of two tracks: the loop has been left
C11_Witness ==
    /\ pc = "restore"
    /\ ev.kind = "Esc"
    /\ Len(queue.songs) >= 2

\* the events with sequence numbers 1 .. n, in that order, are exactly es
InOrder(es, n) == Len(es) = n /\ \A i \in 1..n : es[i].seq = i

\* C12: the events main() has applied, followed by the ones still in the
\* channel, are the events poll() sent, in the order it sent them: none is
\* lost, applied twice, merged or overtaken.  So when main() applies a Tick
\* every event sent before it has been applied, and the elapsed value the Tick
\* displays is the reading of the clock those events left.
C12_AppliedInEmissionOrder ==
    /\ [](applied \o chan = sent /\ InOrder(sent, Len(sent)))
    /\ [][(pc = "recv" /\ ev'.kind = "Tick") =>
              /\ InOrder(applied, Head(chan).seq - 1)
              /\ ev'.outcome = "refreshed" => state'.played = Stopwatch_time(stopwatch)]_vars

\* a Tick sent after a Space press was applied after it, and refreshed the
\* display with the time played since
C12_Witness ==
    /\ Len(applied) = 2
    /\ applied[1].kind = "Space"
    /\ applied[2].kind = "Tick"
    /\ ev = [kind |-> "Tick", outcome |-> "refreshed"]
    /\ state.played > 0

\* C13: main() draws one frame before each receive: while it runs, the frames
\* drawn are as many as the events received, plus the one frame drawn for the
\* receive it is waiting in.  An ignored key and a Right press at the last
\* track count as events like any other.
C13_OneFramePerEvent ==
    pc \in {"draw", "recv", "restore"} =>
        frames = Len(applied) + (IF pc = "recv" THEN 1 ELSE 0)

\* an ignored key, then a Right press at the last track: two events, two frames
C13_Witness ==
    /\ pc = "draw"
    /\ Len(applied) = 2
    /\ applied[1].kind = "Other"
    /\ ev = [kind |-> "Right", outcome |-> "ignored"]
    /\ frames = 2

\* C14: right after reset() the stopwatch reads zero, whether it was running
\* or stopped, and it is running exactly if it was before.
C14_ResetZeroes ==
    [][ClockReset =>
           /\ Stopwatch_time(stopwatch') = 0
           /\ stopwatch'.running = stopwatch.running]_vars

\* reset() was called on a running stopwatch, which runs on from zero
C14_Witness ==
    /\ pc = "clock"
    /\ ev = [kind |-> "reset", outcome |-> "running"]
    /\ stopwatch.running
    /\ stopwatch.time = 0

\* C15: start() on a running stopwatch and stop() on a stopped one change
\* nothing: not the accumulated time, not the start instant, not the running
\* flag; so the reading still counts all the time run before the call.
C15_StartStopIdempotent ==
    [][/\ (ClockStart /\ stopwatch.running) =>
              (stopwatch' = stopwatch /\ Stopwatch_time(stopwatch') = ran')
       /\ (ClockStop /\ ~stopwatch.running) =>
              (stopwatch'.time = stopwatch.time /\ stopwatch'.running = stopwatch.running)]_vars

\* start() was called on a stopwatch that had been running for a while
C15_Witness ==
    /\ pc = "clock"
    /\ ev = [kind |-> "start", outcome |-> "kept"]
    /\ stopwatch.running
    /\ stopwatch.since >= 1

\* C16: whatever was called and however time passed, the stopwatch reads the
\* wall-clock time it has been running since its creation or last reset(); a
\* stopped stopwatch keeps its reading while time passes.
C16_ReadsRunningTime ==
    pc = "clock" => Stopwatch_time(stopwatch) = ran

\* the stopwatch ran, was stopped, and time has passed since
C16_Witness ==
    /\ pc = "clock"
    /\ ev.kind = "wait"
    /\ ~stopwatch.running
    /\ ran >= 1
    /\ Stopwatch_time(stopwatch) = ran

\* C17: a Tick handled while playing that only refreshes the display never
\* shows less than the display showed before it (the value of the Tick before,
\* or the 0 of a reset since); and every step of the loop that moves the
\* cursor leaves the displayed elapsed value at 0.
C17_PlayedMonotoneAndReset ==
    [][/\ (RecvTick /\ state.playing /\ ev'.outcome = "refreshed") =>
              state'.played >= state.played
       /\ (pc = "recv" /\ queue'.cursor # queue.cursor) => state'.played = 0]_vars

\* a Tick while playing refreshed the display with a second played
C17_Witness ==
    /\ pc = "draw"
    /\ ev = [kind |-> "Tick", outcome |-> "refreshed"]
    /\ state.playing
    /\ state.played = 1

\* the positions of the files that load
Loadable == {i \in DOMAIN files : files[i].ok}

\* C18: Queue::new puts exactly the files that load into the queue, in the
\* order of the file list and each with what its load gave, with the cursor at
\* 0; a file that fails is left out and main() goes on without an error.
C18_QueueHoldsLoadedFiles ==
    [][pc = "load" =>
           LET songs == queue'.songs
           IN  /\ queue'.cursor = 0
               /\ {songs[j].path : j \in DOMAIN songs} = Loadable
               /\ \A j, k \in DOMAIN songs : j < k => songs[j].path < songs[k].path
               /\ \A j \in DOMAIN songs : songs[j].total = files[songs[j].path].total
               /\ result' \in {"running", "ok"}]_vars

\* the first of two files failed to load and the queue holds the second
C18_Witness ==
    /\ pc = "device"
    /\ Len(files) = 2
    /\ ~files[1].ok
    /\ Len(queue.songs) = 1
    /\ queue.songs[1].path = 2

\* C19: a key that is none of Space, Left, Right, Up, Down, Esc changes
\* nothing of the session (cursor, playing, displayed elapsed, total, volume,
\* stopwatch, sink) and main() goes on to the next draw without an error.
C19_OtherKeyChangesNothing ==
    [][(pc = "recv" /\ ev'.kind = "Other") =>
           /\ UNCHANGED <<queue, state, stopwatch, sink>>
           /\ pc' = "draw"
           /\ result' = "running"]_vars

\* such a key was handled while a track was playing, a second in
C19_Witness ==
    /\ pc = "draw"
    /\ ev.kind = "Other"
    /\ state.playing
    /\ Stopwatch_time(stopwatch) >= 1

\* C20: wherever main() draws or waits for an event, the playing flag, the
\* stopwatch's running flag and the sink not being paused agree.
C20_TransportAgrees ==
    pc \in {"draw", "recv"} =>
        /\ state.playing = stopwatch.running
        /\ state.playing = ~sink.paused

\* the end of a track moved the queue on: the next track is playing
C20_Witness ==
    /\ pc = "draw"
    /\ ev = [kind |-> "Tick", outcome |-> "advanced"]
    /\ state.playing
    /\ stopwatch.running
    /\ ~sink.paused

\* C21: wherever main() draws or waits for an event, the volume of the sink
\* (in hundredths, as set_volume(v as f32 / 100.0) sets it) is VolumeState:
\* after Up and Down, at the bounds too, and after every reset! that made a
\* new sink.
C21_SinkVolumeIsDisplayed ==
    pc \in {"draw", "recv"} => sink.volume = state.volume

\* the track was restarted after the volume had been turned down: the new
\* sink has the volume displayed
C21_Witness ==
    /\ pc = "draw"
    /\ ev = [kind |-> "Left", outcome |-> "restarted"]
    /\ state.volume = INITIAL_VOLUME - 1
    /\ sink.volume = state.volume

\* C23: a Tick handled while paused, or while playing before the end of the
\* track, sets the displayed elapsed value to the stopwatch's reading and
\* changes nothing else: not the cursor, the playing flag, the total, the
\* volume, the stopwatch or the sink.  A paused session is never moved on.
C23_TickOnlyRefreshes ==
    [][(/\ pc = "recv"
        /\ ev'.kind = "Tick"
        /\ ~state.playing \/ Stopwatch_time(stopwatch) < state.duration) =>
           /\ state' = [state EXCEPT !.played = Stopwatch_time(stopwatch)]
           /\ UNCHANGED <<queue, stopwatch, sink>>]_vars

\* a Tick found the session paused at the end of its track and left it there
C23_Witness ==
    /\ pc = "draw"
    /\ ev = [kind |-> "Tick", outcome |-> "refreshed"]
    /\ ~state.playing
    /\ state.played >= state.duration
    /\ state.duration >= 1

\* an outcome that moves the cursor when the queue has more than one track
MovesCursor(o) == o \in {"skipped", "previous", "advanced", "rewound"}

\* C25: at every draw the position and metadata displayed, the total
\* displayed and the one track queued in the sink are those of the track at
\* the cursor; and the draw that follows an event which moved the cursor shows
\* an elapsed value of 0, not the one of the track before.
C25_DisplayMatchesCursor ==
    pc = "draw" =>
        LET current == Queue_current(queue)
        IN  /\ Queue_in_bounds(queue)
            /\ state.info.current = queue.cursor
            /\ state.info.metadata = current.lilac.path
            /\ state.duration = current.lilac.total
            /\ sink.queued = <<current.lilac>>
            /\ MovesCursor(ev.outcome) => (state.played = 0 /\ Stopwatch_time(stopwatch) = 0)

\* Left went back from the second track to the first, which is what is drawn
C25_Witness ==
    /\ pc = "draw"
    /\ ev = [kind |-> "Left", outcome |-> "previous"]
    /\ queue.cursor = 0
    /\ state.info.current = 0
    /\ sink.queued = <<queue.songs[1]>>

\* C27: Left handled with the cursor at 0 leaves the cursor at 0 and restarts
\* the first track, below the threshold as above it: stopwatch and displayed
\* elapsed at 0, a new sink holding the first track from its start, with the
\* playing flag, the running flag and the volume as they were.
C27_LeftAtFirstRestarts ==
    [][(pc = "recv" /\ ev'.kind = "Left" /\ queue.cursor = 0) =>
           /\ queue' = queue
           /\ state'.played = 0
           /\ Stopwatch_time(stopwatch') = 0
           /\ stopwatch'.running = stopwatch.running
           /\ state'.playing = state.playing
           /\ state'.volume = state.volume
           /\ sink' = [made |-> TRUE, queued |-> <<queue.songs[1]>>, paused |-> ~state.playing,
                       volume |-> state.volume, pos |-> 0]]_vars

\* Left restarted the first track of a playing session past the threshold
C27_Witness ==
    /\ pc = "draw"
    /\ ev = [kind |-> "Left", outcome |-> "restarted"]
    /\ queue.cursor = 0
    /\ state.playing
    /\ sink.pos = 0

\* C22: poll() returns as soon as it has sent Input(Esc), and only then: an
\* Esc is the last event of all that were sent, and when main() receives it
\* every event sent before it has been received and the channel is empty.
C22_EscapeIsLastSent ==
    /\ \A i \in DOMAIN sent : sent[i].kind = "Esc" => i = Len(sent)
    /\ poll = "returned" <=> (sent # <<>> /\ sent[Len(sent)].kind = "Esc")
    /\ (applied # <<>> /\ applied[Len(applied)].kind = "Esc") => (applied = sent /\ chan = <<>>)

\* Esc was sent after another event; main() has received both and left the loop
C22_Witness ==
    /\ poll = "returned"
    /\ Len(sent) = 2
    /\ sent[2].kind = "Esc"
    /\ applied = sent
    /\ pc = "restore"

\* C24: whenever poll() computes TICK_RATE - last_tick.elapsed(), the time
\* since the last tick is at most TICK_RATE.
C24_TimeoutNeverUnderflows ==
    [][(poll = "poll" /\ poll' # "poll") => last_tick <= TICK_RATE]_vars

\* main() is in its loop
InLoop == pc \in {"draw", "recv"}

\* the session rests at the start of the queue
Stopped ==
    /\ InLoop
    /\ queue.cursor = 0
    /\ ~state.playing
    /\ state.played = 0
    /\ Stopwatch_time(stopwatch) = 0

\* C26: once the user is quiet while the session plays, and as long as main()
\* does not return with an error, the session comes to rest at the first
\* track, paused with an elapsed value of 0, and stays there; on the way the
\* cursor only moves to the next index, and from the last index to 0.
C26_PlaysToTheEndAndRewinds ==
    /\ (quiet /\ state.playing /\ InLoop) ~> (Stopped \/ pc = "done")
    /\ [][(quiet /\ Stopped) => (Stopped' \/ pc' = "done")]_vars
    /\ [][(quiet /\ InLoop /\ pc' # "done" /\ queue'.cursor # queue.cursor) =>
              \/ queue'.cursor = queue.cursor + 1
              \/ queue.cursor = LastIndex /\ queue'.cursor = 0 /\ ~state'.playing]_vars

\* with the user quiet, the Tick at the end of the last of two tracks has
\* brought the session to rest
C26_Witness ==
    /\ quiet
    /\ Stopped
    /\ pc = "draw"
    /\ ev = [kind |-> "Tick", outcome |-> "rewound"]
    /\ Len(queue.songs) >= 2

====
